---- MODULE Spec2Model ----
(***************************************************************************)
(* vrepsim: a client-side object wrapper around the V-REP remote API.      *)
(*                                                                         *)
(* The model keeps the wrapper's own state (each Simulator's client id,    *)
(* the module-level default simulator, each scene object's name, handle,   *)
(* registered parent and children, the two array interfaces) and treats    *)
(* the remote API server as an environment: every remote call may return   *)
(* any result code.  Every public method is one action.  An action         *)
(* records in `last` what the invocation did: the remote calls it issued,  *)
(* in order, with their results, and the exception it raised.  Calls are   *)
(* synchronous and single-threaded: after an invocation the caller takes   *)
(* the result (Return) before it invokes the next method.                  *)
(***************************************************************************)
EXTENDS Integers, Sequences, FiniteSets

(* ------------------------------ bounds -------------------------------- *)

\* simxStart returns -1 or a client id in 0..MaxClientId
MaxClientId == 0

\* simxGetObjectHandle returns, with result code ok, a handle in 0..MaxHandle
MaxHandle == 0

\* simxGetInMessageInfo reports a server state in 0..MaxServerState
MaxServerState == 1

\* the arrays are constructed from at most MaxArrayLen names
MaxArrayLen == 2

\* a vision sensor has 1..MaxWidth by 1..MaxHeight pixels
MaxWidth == 3

MaxHeight == 3

\* the buffers a vision sensor returns start at a value in 0..MaxRampStart
\* times RampStartStep and go up by 1..MaxRampStep from element to element
MaxRampStart == 3

MaxRampStep == 2

\* the program that uses every operation constructs at most MaxObjects scene
\* objects; the program that builds and rearranges a tree of scene objects
\* uses all the interfaces of ObjOrder
MaxObjects == 2

(* ----------------------------- constants ------------------------------ *)

MISSING_HANDLE == -1

REMOVED_OBJ_HANDLE == -2

EMPTY_NAME == "*Unnamed*"

\* bit of the server state that tells a simulation is not stopped
SIM_NOT_STOPPED == 1

\* Python's None, for a reference (a simulator, a scene object)
NoRef == "None"

\* Python's None, for an optional integer: None is <<>>, the integer n is <<n>>
None == <<>>

Some(n) == <<n>>

\* the Simulator instances of the program
Sims == {"s1", "s2"}

\* the scene object interfaces the program may construct, in the order it
\* constructs them
ObjOrder == << "o1", "o2", "o3" >>

Objs == { ObjOrder[i] : i \in 1..Len(ObjOrder) }

\* the classes of scene objects (Dummy adds nothing to SceneObject)
Classes == {"SceneObject", "Model", "Motor", "ProximitySensor", "VisionSensor"}

\* the classes with Model's set_removed, remove and get_bbox_limits
ModelClasses == {"Model", "PioneerBot"}

\* names given to constructors: none, a scene name, the substitute name
NameArgs == {"", "Pioneer", EMPTY_NAME}

\* result codes of the remote API: ok, the no-value flag, an error flag
simx_return_ok == "simx_return_ok"

simx_return_novalue_flag == "simx_return_novalue_flag"

simx_return_remote_error_flag == "simx_return_remote_error_flag"

ResCodes == {simx_return_ok, simx_return_novalue_flag,
             simx_return_remote_error_flag}

\* server state words the model lets simxGetInMessageInfo report
ServerStates == 0..MaxServerState

(* ----------------------------- variables ------------------------------ *)

VARIABLES
    _client_id,   \* Simulator._client_id, per Simulator
    _vrep_sim,    \* simulator._vrep_sim: the module-level default simulator
    kind,         \* the class of each scene object ("None": not constructed)
    _name,        \* SceneObject._name
    _handle,      \* SceneObject._handle
    _parent,      \* SceneObject._parent
    _children,    \* SceneObject._children
    vrep_sim,     \* Communicator._vrep_sim: the simulator an object talks to
    _motors,      \* MotorArray._motors of the program's array of motors
    _sensors,     \* SensorArray._sensors of its array of proximity sensors
    last          \* the invocation just made, until the caller takes it

simvars == <<_client_id, _vrep_sim>>

objvars == <<kind, _name, _handle, _parent, _children, vrep_sim>>

arrvars == <<_motors, _sensors>>

vars == <<_client_id, _vrep_sim, kind, _name, _handle, _parent, _children,
          vrep_sim, _motors, _sensors, last>>

(* ------------------------- invocation records ------------------------- *)

\* one remote API call: the function, what distinguishes its argument, the
\* result code it returned and the value it returned (0 where the wrapper
\* does not look at it)
Call(fn, arg, res, val) == [fn |-> fn, arg |-> arg, res |-> res, val |-> val]

\* no invocation is pending
Idle == [op |-> "idle", self |-> NoRef, arg |-> "", exc |-> "None",
         calls |-> <<>>, ret |-> <<>>]

\* an invocation: ret is the value returned, <<>> where it is not modelled
Invocation(op, self, arg, exc, calls) ==
    [op |-> op, self |-> self, arg |-> arg, exc |-> exc, calls |-> calls,
     ret |-> <<>>]

\* the invocation inv returning ret
Returning(inv, ret) == [inv EXCEPT !.ret = ret]

(* ------------------------------ Simulator ----------------------------- *)

get_default_simulator == _vrep_sim

\* connect without its check: it takes the connection from another simulator
connect_unchecked(s) == TRUE

\* connect testing the default simulator's connection instead of its own
connect_allowed_default_tested(s) ==
    _vrep_sim = NoRef \/ _client_id[_vrep_sim] # None

\* Simulator.connect: the check that no other connection is established
connect_allowed(s) == _vrep_sim = NoRef \/ _client_id[s] # None

\* connect storing whatever simxStart returned, -1 too
connect_client_id_unchecked(id) == Some(id)

\* the client id connect stores after simxStart returned id
connect_client_id(id) == IF id = -1 THEN None ELSE Some(id)

\* connect making the simulator the default whatever simxStart returned
connect_default_unchecked(s, id) == s

\* the default simulator connect leaves after simxStart returned id
connect_default(s, id) == IF id = -1 THEN NoRef ELSE s

\* conn_msg: whether connect connects or reconnects
connect_conn_msg(s) ==
    IF _vrep_sim = NoRef THEN "connected" ELSE "reconnected"

connect(s) ==
    /\ last = Idle
    /\ UNCHANGED <<objvars, arrvars>>
    /\ IF ~connect_allowed(s)
       THEN /\ last' = Invocation("connect", s, "", "ConnectionError", <<>>)
            /\ UNCHANGED simvars
       ELSE \E id \in -1..MaxClientId :
            /\ _client_id' = [_client_id EXCEPT ![s] = connect_client_id(id)]
            /\ _vrep_sim' = connect_default(s, id)
            /\ last' = Invocation("connect", s, connect_conn_msg(s),
                           IF id = -1 THEN "ConnectionError" ELSE "None",
                           << Call("simxFinish", "-1", "", 0),
                              Call("simxStart", "", "", id) >>)

\* disconnect closing and clearing whether connected or not
disconnect_needed_always(s) == TRUE

\* Simulator.disconnect: whether there is a connection to close
disconnect_needed(s) == _client_id[s] # None

disconnect(s) ==
    /\ last = Idle
    /\ UNCHANGED <<objvars, arrvars>>
    /\ IF disconnect_needed(s)
       THEN /\ _client_id' = [_client_id EXCEPT ![s] = None]
            /\ _vrep_sim' = NoRef
            /\ last' = Invocation("disconnect", s, "", "None",
                           << Call("simxFinish", "client_id", "", 0) >>)
       ELSE /\ last' = Invocation("disconnect", s, "", "None", <<>>)
            /\ UNCHANGED simvars

(* Simulator queries and controls.  A run of a method is the sequence of the
   remote calls it issued and the exception it raised ("None": it returned). *)

Run(calls, exc) == [calls |-> calls, exc |-> exc]

\* the check `if res != vrep.simx_return_ok: raise ServerError`
not_ok(res) == res # simx_return_ok

\* the check `if res not in (simx_return_ok, simx_return_novalue_flag)`
not_ok_nor_novalue(res) ==
    res \notin {simx_return_ok, simx_return_novalue_flag}

\* a result code checked but nothing raised
ServerErrorIf_never(failed) == "None"

ServerErrorIf(failed) == IF failed THEN "ServerError" ELSE "None"

\* a method that checks the connection and forwards to one remote function
simple_runs(s, fn, arg) ==
    IF _client_id[s] = None
    THEN { Run(<<>>, "ConnectionError") }
    ELSE { Run(<< Call(fn, arg, res, 0) >>, ServerErrorIf(not_ok(res))) :
             res \in ResCodes }

get_dyn_eng_dt_runs(s) ==
    simple_runs(s, "simxGetFloatingParameter",
                "sim_floatparam_dynamic_step_size")

get_dyn_eng_name_runs(s) ==
    simple_runs(s, "simxGetIntegerParameter", "sim_intparam_dynamic_engine")

get_scene_path_runs(s) ==
    simple_runs(s, "simxGetStringParameter",
                "sim_stringparam_scene_path_and_name")

get_sim_dt_runs(s) ==
    simple_runs(s, "simxGetFloatingParameter",
                "sim_floatparam_simulation_time_step")

get_version_runs(s) ==
    simple_runs(s, "simxGetIntegerParameter", "sim_intparam_program_version")

trig_sim_step_runs(s) == simple_runs(s, "simxSynchronousTrigger", "")

\* bitwise and of two naturals
RECURSIVE BitAnd(_, _)
BitAnd(a, b) ==
    IF a = 0 \/ b = 0 THEN 0
    ELSE (a % 2) * (b % 2) + 2 * BitAnd(a \div 2, b \div 2)

\* is_sim_started's return value: server_state & SIM_NOT_STOPPED
sim_started_value(server_state) == BitAnd(server_state, SIM_NOT_STOPPED)

\* is_sim_started once simxGetInMessageInfo returned r with server state st:
\* -1 raises, anything else returns the masked state
is_sim_started_info_run(first, r, st) ==
    [calls |-> << first, Call("simxGetInMessageInfo",
                              "simx_headeroffset_server_state", r, st) >>,
     exc |-> ServerErrorIf(r = "-1"),
     ret |-> IF r = "-1" THEN 0 ELSE sim_started_value(st)]

\* is_sim_started after its refreshing call succeeded: the message info is read
is_sim_started_info_runs(first) ==
    { is_sim_started_info_run(first, "-1", 0) } \cup
    { is_sim_started_info_run(first, "no_error", st) : st \in ServerStates }

is_sim_started_after(first) ==
    IF not_ok(first.res)
    THEN { [calls |-> << first >>, exc |-> "ServerError", ret |-> 0] }
    ELSE is_sim_started_info_runs(first)

\* Simulator.is_sim_started: runs with the value returned (0 when it raised)
is_sim_started_runs(s) ==
    IF _client_id[s] = None
    THEN { [calls |-> <<>>, exc |-> "ConnectionError", ret |-> 0] }
    ELSE UNION { is_sim_started_after(
                     Call("simxGetBooleanParameter",
                          "sim_boolparam_waiting_for_trigger", res, 0)) :
                 res \in ResCodes }

\* start_sim after simxSynchronous returned: simxStartSimulation follows
start_sim_start_runs(first) ==
    { Run(<< first, Call("simxStartSimulation", "", res, 0) >>,
          ServerErrorIf(not_ok_nor_novalue(res))) : res \in ResCodes }

\* start_sim going on to simxStartSimulation whatever simxSynchronous returned
start_sim_after_unchecked(first) == start_sim_start_runs(first)

start_sim_after(first) ==
    IF not_ok(first.res)
    THEN { Run(<< first >>, "ServerError") }
    ELSE start_sim_start_runs(first)

start_sim_runs(s) ==
    IF _client_id[s] = None
    THEN { Run(<<>>, "ConnectionError") }
    ELSE UNION { start_sim_after(Call("simxSynchronous", "", res, 0)) :
                 res \in ResCodes }

stop_sim_runs(s) ==
    IF _client_id[s] = None
    THEN { Run(<<>>, "ConnectionError") }
    ELSE { Run(<< Call("simxStopSimulation", "", res, 0) >>,
               ServerErrorIf(not_ok_nor_novalue(res))) : res \in ResCodes }

\* An invocation of a Simulator method that changes no state of the wrapper.
\* These methods read the simulator's client id and nothing else, so what
\* they do is the same whatever scene objects exist: the model invokes them
\* while none is constructed yet.
SimMethod(op, s, runs) ==
    /\ last = Idle
    /\ \A o \in Objs : kind[o] = NoRef
    /\ \E run \in runs : last' = Invocation(op, s, "", run.exc, run.calls)
    /\ UNCHANGED <<simvars, objvars, arrvars>>

get_dyn_eng_dt(s) == SimMethod("get_dyn_eng_dt", s, get_dyn_eng_dt_runs(s))

get_dyn_eng_name(s) ==
    SimMethod("get_dyn_eng_name", s, get_dyn_eng_name_runs(s))

get_scene_path(s) == SimMethod("get_scene_path", s, get_scene_path_runs(s))

get_sim_dt(s) == SimMethod("get_sim_dt", s, get_sim_dt_runs(s))

get_version(s) == SimMethod("get_version", s, get_version_runs(s))

is_sim_started(s) == SimMethod("is_sim_started", s, is_sim_started_runs(s))

start_sim(s) == SimMethod("start_sim", s, start_sim_runs(s))

stop_sim(s) == SimMethod("stop_sim", s, stop_sim_runs(s))

trig_sim_step(s) == SimMethod("trig_sim_step", s, trig_sim_step_runs(s))

(* ---------------------------- scene objects --------------------------- *)

\* the scene objects' fields as one value, for the methods that other
\* methods call in sequence
Heap == [kind |-> kind, name |-> _name, handle |-> _handle,
         parent |-> _parent, children |-> _children, sim |-> vrep_sim]

SetHeap(H) ==
    /\ kind' = H.kind
    /\ _name' = H.name
    /\ _handle' = H.handle
    /\ _parent' = H.parent
    /\ _children' = H.children
    /\ vrep_sim' = H.sim

\* the scene objects constructed so far
Constructed(H) == { o \in Objs : H.kind[o] # NoRef }

\* the interface a constructor call creates next (NoRef: the bound is reached)
NewObj(H) ==
    IF \A i \in 1..Len(ObjOrder) : H.kind[ObjOrder[i]] # NoRef THEN NoRef
    ELSE ObjOrder[CHOOSE i \in 1..Len(ObjOrder) :
                    /\ H.kind[ObjOrder[i]] = NoRef
                    /\ \A j \in 1..(i - 1) : H.kind[ObjOrder[j]] # NoRef]

\* arguments that may be None, an integer, a scene object or anything else
NoneArg == [type |-> "None", v |-> 0, o |-> NoRef]

IntArg(n) == [type |-> "int", v |-> n, o |-> NoRef]

ObjArg(o) == [type |-> "SceneObject", v |-> 0, o |-> o]

OtherArg == [type |-> "other", v |-> 0, o |-> NoRef]

\* SceneObject.removed
removed(H, o) == H.handle[o] = REMOVED_OBJ_HANDLE

\* SceneObject.handle: the value (None for a missing handle) or the
\* RuntimeError raised, for a removed object or for an invalid handle
handle(H, o) ==
    IF H.handle[o] >= 0
    THEN [exc |-> "None", msg |-> "", val |-> Some(H.handle[o])]
    ELSE IF H.handle[o] = MISSING_HANDLE
    THEN [exc |-> "None", msg |-> "", val |-> None]
    ELSE IF H.handle[o] = REMOVED_OBJ_HANDLE
    THEN [exc |-> "RuntimeError", msg |-> "object removed", val |-> None]
    ELSE [exc |-> "RuntimeError", msg |-> "invalid handle", val |-> None]

\* to_handle that passes -1 for a scene object without a usable handle
to_handle_lenient(H, arg) ==
    CASE arg.type = "None" -> [exc |-> "None", val |-> -1]
      [] arg.type = "int" ->
            IF arg.v >= 0 THEN [exc |-> "None", val |-> arg.v]
            ELSE [exc |-> "ValueError", val |-> -1]
      [] arg.type = "SceneObject" ->
            IF H.handle[arg.o] >= 0
            THEN [exc |-> "None", val |-> H.handle[arg.o]]
            ELSE [exc |-> "None", val |-> -1]
      [] OTHER -> [exc |-> "TypeError", val |-> -1]

\* to_handle(obj, name): the handle, or the exception raised
to_handle(H, arg) ==
    CASE arg.type = "None" -> [exc |-> "None", val |-> -1]
      [] arg.type = "int" ->
            IF arg.v >= 0 THEN [exc |-> "None", val |-> arg.v]
            ELSE [exc |-> "ValueError", val |-> -1]
      [] arg.type = "SceneObject" ->
            IF removed(H, arg.o) THEN [exc |-> "RuntimeError", val |-> -1]
            ELSE IF handle(H, arg.o).val = None
                 THEN [exc |-> "RuntimeError", val |-> -1]
                 ELSE [exc |-> "None", val |-> handle(H, arg.o).val[1]]
      [] OTHER -> [exc |-> "TypeError", val |-> -1]

\* Communicator.client_id
client_id(H, o) == _client_id[H.sim[o]]

register_child(H, p, child) ==
    [H EXCEPT !.children[p] = @ \cup {child}]

\* unregister_child raises ValueError for a child that is not registered
unregister_child_raises(H, p, child) == child \notin H.children[p]

unregister_child(H, p, child) ==
    [H EXCEPT !.children[p] = @ \ {child}]

register_parent(H, o, p) == [H EXCEPT !.parent[o] = p]

\* unregister_parent (its RuntimeError for no parent leaves the state alone)
unregister_parent(H, o) == [H EXCEPT !.parent[o] = NoRef]

\* a removed object getting a value that is no sentinel
removed_handle_other == REMOVED_OBJ_HANDLE - 1

\* the handle a removed object gets
removed_handle == REMOVED_OBJ_HANDLE

RECURSIVE set_removed(_, _, _)
RECURSIVE set_removed_each(_, _, _)

\* `for child in children: child.set_removed(recursive)`
set_removed_each(H, cs, recursive) ==
    IF cs = {} THEN H
    ELSE LET c == CHOOSE x \in cs : TRUE
         IN  set_removed_each(set_removed(H, c, recursive), cs \ {c},
                              recursive)

RECURSIVE adopt_each(_, _, _)
\* `for child in children: p.register_child(child); child.register_parent(p)`
adopt_each(H, cs, p) ==
    IF cs = {} THEN H
    ELSE LET c == CHOOSE x \in cs : TRUE
         IN  adopt_each(register_parent(register_child(H, p, c), c, p),
                        cs \ {c}, p)

RECURSIVE unregister_parent_each(_, _)
\* `for child in children: child.unregister_parent()`, RuntimeError ignored
unregister_parent_each(H, cs) ==
    IF cs = {} THEN H
    ELSE LET c == CHOOSE x \in cs : TRUE
         IN  unregister_parent_each(unregister_parent(H, c), cs \ {c})

\* set_removed that hands no child over to the parent
SceneObject_set_removed_orphaning(H, o, recursive) ==
    LET H1 == [H EXCEPT !.handle[o] = removed_handle]
        H2 == IF recursive
              THEN set_removed_each([H1 EXCEPT !.parent[o] = NoRef],
                                    H1.children[o], recursive)
              ELSE LET Hu == unregister_parent_each(H1, H1.children[o])
                   IN  IF H1.parent[o] # NoRef
                       THEN [unregister_child(Hu, H1.parent[o], o)
                               EXCEPT !.parent[o] = NoRef]
                       ELSE Hu
    IN  [H2 EXCEPT !.children[o] = {}]

\* SceneObject.set_removed
SceneObject_set_removed(H, o, recursive) ==
    LET H1 == [H EXCEPT !.handle[o] = removed_handle]
        H2 == IF recursive
              THEN set_removed_each([H1 EXCEPT !.parent[o] = NoRef],
                                    H1.children[o], recursive)
              ELSE IF H1.parent[o] # NoRef
                   THEN LET p  == H1.parent[o]
                            Ha == adopt_each(H1, H1.children[o], p)
                        IN  [unregister_child(Ha, p, o)
                               EXCEPT !.parent[o] = NoRef]
                   ELSE unregister_parent_each(H1, H1.children[o])
    IN  [H2 EXCEPT !.children[o] = {}]

\* a model marked as removed the way a plain scene object is
Model_set_removed_shallow(H, o, recursive) ==
    SceneObject_set_removed(H, o, recursive)

\* Model.set_removed
Model_set_removed(H, o, recursive) ==
    LET H1 == [H EXCEPT !.handle[o] = removed_handle]
        H2 == IF H1.parent[o] # NoRef
              THEN [(IF recursive THEN H1
                     ELSE unregister_child(H1, H1.parent[o], o))
                      EXCEPT !.parent[o] = NoRef]
              ELSE H1
        H3 == set_removed_each(H2, H2.children[o], TRUE)
    IN  [H3 EXCEPT !.children[o] = {}]

\* set_removed that also takes the name from the object
set_removed_unnamed(H, o, recursive) ==
    [SceneObject_set_removed(H, o, recursive) EXCEPT !.name[o] = EMPTY_NAME]

\* set_removed, as the class of the object defines it
set_removed(H, o, recursive) ==
    IF H.kind[o] \in ModelClasses THEN Model_set_removed(H, o, recursive)
    ELSE SceneObject_set_removed(H, o, recursive)

\* an outcome of a constructor: the fields afterwards, the calls issued, the
\* exception raised and the object constructed (NoRef when it raised)
Outcome(H, calls, exc, obj) ==
    [heap |-> H, calls |-> calls, exc |-> exc, obj |-> obj]

\* Communicator.__init__: the simulator given, else the default one
communicator_sim(sim) == IF sim # NoRef THEN sim ELSE get_default_simulator

\* handles simxGetObjectHandle may return with result code ok
ServerHandles == 0..MaxHandle

\* SceneObject._get_handle for a name, talking to simulator sim: what it
\* raises or returns
get_handle_runs(name, sim) ==
    IF name = EMPTY_NAME
    THEN { [calls |-> <<>>, exc |-> "RuntimeError", val |-> 0] }
    ELSE IF _client_id[sim] = None
    THEN { [calls |-> <<>>, exc |-> "ConnectionError", val |-> 0] }
    ELSE { [calls |-> << Call("simxGetObjectHandle", name,
                              simx_return_remote_error_flag, 0) >>,
            exc |-> "ServerError", val |-> 0],
           [calls |-> << Call("simxGetObjectHandle", name,
                              simx_return_novalue_flag, 0) >>,
            exc |-> "ServerError", val |-> 0] } \cup
         { [calls |-> << Call("simxGetObjectHandle", name,
                              simx_return_ok, h) >>,
            exc |-> "None", val |-> h] : h \in ServerHandles }

\* the name and the handle __init__ stores: the handle looked up for a name
\* given, the substitutes otherwise
init_name(name) == IF name # "" THEN name ELSE EMPTY_NAME

init_handle_runs(name, sim) ==
    IF name # "" THEN get_handle_runs(name, sim)
    ELSE { [calls |-> <<>>, exc |-> "None", val |-> MISSING_HANDLE] }

\* the rest of SceneObject.__init__ once the handle is known: the fields are
\* set and the parent, if one is given, registers the object
init_fields(H, o, cls, name, hnd, parent, sim) ==
    LET H1 == [H EXCEPT !.kind[o] = cls, !.name[o] = init_name(name),
                        !.handle[o] = hnd, !.children[o] = {},
                        !.parent[o] = NoRef, !.sim[o] = sim]
    IN  IF parent.type = "SceneObject"
        THEN register_parent(register_child(H1, parent.o, o), o, parent.o)
        ELSE H1

\* SceneObject.__init__(name, parent, vrep_sim) of class cls
init_runs(H, cls, name, parent, sim) ==
    IF communicator_sim(sim) = NoRef
    THEN { Outcome(H, <<>>, "RuntimeError", NoRef) }
    ELSE { IF r.exc # "None" THEN Outcome(H, r.calls, r.exc, NoRef)
           ELSE IF parent.type \notin {"None", "SceneObject"}
           THEN Outcome(H, r.calls, "TypeError", NoRef)
           ELSE Outcome(init_fields(H, NewObj(H), cls, name, r.val, parent,
                                    communicator_sim(sim)),
                        r.calls, "None", NewObj(H)) :
           r \in init_handle_runs(name, communicator_sim(sim)) }

\* the parents a caller may give a constructor
ParentArgs(H) == {NoneArg, OtherArg} \cup { ObjArg(p) : p \in Constructed(H) }

\* the simulators a caller may give a constructor (NoRef: the default)
SimArgs == Sims \cup {NoRef}

\* the simulator the program's scene objects talk to: the other simulator
\* only takes the connection away from it
ObjSims == {"s1"}

\* the classes the program constructs directly as object o: any class for its
\* first object, generic objects and models after it (further motors and
\* proximity sensors come from the arrays)
DirectClasses(o) ==
    IF o = ObjOrder[1] THEN Classes ELSE {"SceneObject", "Model"}

\* SceneObject(name, parent, vrep_sim), and the same for each class
SceneObject_init(cls, name, parent, sim) ==
    /\ last = Idle
    /\ NewObj(Heap) # NoRef
    /\ cls \in DirectClasses(NewObj(Heap))
    /\ communicator_sim(sim) \in ObjSims \cup {NoRef}
    /\ \E out \in init_runs(Heap, cls, name, parent, sim) :
          /\ SetHeap(out.heap)
          /\ last' = Invocation("__init__", out.obj, name, out.exc, out.calls)
    /\ UNCHANGED <<simvars, arrvars>>

(* Forwarding methods of a scene object.  Each starts with the same checks:
   the handle, then the connection. *)

\* `if self._handle < 0:` with its two raises, for a missing and for a removed
\* object
handle_raises(H, o) ==
    /\ H.handle[o] < 0
    /\ H.handle[o] = MISSING_HANDLE \/ H.handle[o] = REMOVED_OBJ_HANDLE

\* the checks without the one of the connection
precheck_handle_only(H, o) ==
    IF handle_raises(H, o) THEN "RuntimeError" ELSE "None"

\* the checks in the other order: the connection, then the handle
precheck_connection_first(H, o) ==
    IF client_id(H, o) = None THEN "ConnectionError"
    ELSE IF handle_raises(H, o) THEN "RuntimeError"
    ELSE "None"

\* the exception of the checks before the remote call ("None": they pass)
precheck(H, o) ==
    IF handle_raises(H, o) THEN "RuntimeError"
    ELSE IF client_id(H, o) = None THEN "ConnectionError"
    ELSE "None"

\* one remote call, repeated once when it fails
one_call_runs_retry(fn, arg) ==
    { Run(<< Call(fn, arg, res, 0) >>, "None") : res \in {simx_return_ok} }
    \cup
    { Run(<< Call(fn, arg, res, 0), Call(fn, arg, again, 0) >>,
          ServerErrorIf(not_ok(again))) :
        res \in ResCodes \ {simx_return_ok}, again \in ResCodes }

\* one remote call, ServerError unless it returns ok
one_call_runs(fn, arg) ==
    { Run(<< Call(fn, arg, res, 0) >>, ServerErrorIf(not_ok(res))) :
        res \in ResCodes }

\* a forwarding method that looks the handle up again before its call
forward_runs_relookup(H, o, fn, arg) ==
    IF precheck(H, o) # "None" THEN { Run(<<>>, precheck(H, o)) }
    ELSE { Run(<< Call("simxGetObjectHandle", H.name[o], simx_return_ok,
                       H.handle[o]) >> \o run.calls, run.exc) :
             run \in one_call_runs(fn, arg) }

\* checks, then one remote call
forward_runs(H, o, fn, arg) ==
    IF precheck(H, o) # "None" THEN { Run(<<>>, precheck(H, o)) }
    ELSE one_call_runs(fn, arg)

\* checks, then the handle of another object, then one remote call
forward_to_runs(H, o, other, fn, arg) ==
    IF precheck(H, o) # "None" THEN { Run(<<>>, precheck(H, o)) }
    ELSE IF to_handle(H, other).exc # "None"
    THEN { Run(<<>>, to_handle(H, other).exc) }
    ELSE one_call_runs(fn, arg)

copy_paste_runs(H, o) == forward_runs(H, o, "simxCopyPasteObjects", "")

get_orientation_runs(H, o, relative) ==
    forward_to_runs(H, o, relative, "simxGetObjectOrientation", "")

get_position_runs(H, o, relative) ==
    forward_to_runs(H, o, relative, "simxGetObjectPosition", "")

get_parent_handle_runs(H, o) == forward_runs(H, o, "simxGetObjectParent", "")

set_velocity_runs(H, o) ==
    forward_runs(H, o, "simxSetJointTargetVelocity", "")

get_depth_buffer_runs(H, o) ==
    forward_runs(H, o, "simxGetVisionSensorDepthBuffer", "")

get_image_runs(H, o) == forward_runs(H, o, "simxGetVisionSensorImage", "")

\* ProximitySensor.get_inv_distance: ok and the no-value flag both return
get_inv_distance_runs(H, o) ==
    IF precheck(H, o) # "None" THEN { Run(<<>>, precheck(H, o)) }
    ELSE { Run(<< Call("simxReadProximitySensor", "", res, 0) >>,
               ServerErrorIf(not_ok_nor_novalue(res))) : res \in ResCodes }

\* the six limits, in the order get_bbox_limits retrieves them
OBJ_BBOX_LIMITS ==
    << "sim_objfloatparam_objbbox_min_x", "sim_objfloatparam_objbbox_max_x",
       "sim_objfloatparam_objbbox_min_y", "sim_objfloatparam_objbbox_max_y",
       "sim_objfloatparam_objbbox_min_z", "sim_objfloatparam_objbbox_max_z" >>

MODEL_BBOX_LIMITS ==
    << "sim_objfloatparam_modelbbox_min_x",
       "sim_objfloatparam_modelbbox_max_x",
       "sim_objfloatparam_modelbbox_min_y",
       "sim_objfloatparam_modelbbox_max_y",
       "sim_objfloatparam_modelbbox_min_z",
       "sim_objfloatparam_modelbbox_max_z" >>

RECURSIVE bbox_loop_runs(_, _, _)
\* `for limit in BBOX_LIMITS:` from limit i on, after the calls in done
bbox_loop_runs(limits, i, done) ==
    IF i > Len(limits) THEN { Run(done, "None") }
    ELSE UNION {
           LET call == Call("simxGetObjectFloatParameter", limits[i], res, 0)
           IN  IF not_ok(res) THEN { Run(Append(done, call), "ServerError") }
               ELSE bbox_loop_runs(limits, i + 1, Append(done, call)) :
           res \in ResCodes }

\* get_bbox_limits of SceneObject and of Model
get_bbox_limits_runs(H, o) ==
    IF precheck(H, o) # "None" THEN { Run(<<>>, precheck(H, o)) }
    ELSE bbox_loop_runs(IF H.kind[o] \in ModelClasses THEN MODEL_BBOX_LIMITS
                        ELSE OBJ_BBOX_LIMITS, 1, <<>>)

\* the script types call_script_func supports
ASSOC_SCRIPT_TYPES == {"child", "customization"}

ScriptTypeArgs == ASSOC_SCRIPT_TYPES \cup {"main"}

call_script_func_runs(H, o, script_type) ==
    IF script_type \notin ASSOC_SCRIPT_TYPES THEN { Run(<<>>, "ValueError") }
    ELSE IF H.handle[o] = REMOVED_OBJ_HANDLE
    THEN { Run(<<>>, "RuntimeError") }
    ELSE IF H.name[o] = EMPTY_NAME THEN { Run(<<>>, "RuntimeError") }
    ELSE IF client_id(H, o) = None THEN { Run(<<>>, "ConnectionError") }
    ELSE one_call_runs("simxCallScriptFunction", script_type)

\* the remote set call issued whatever is_sim_started reported
set_after_started_unguarded(H, started, relative, fn) ==
    { Run(started.calls \o run.calls, run.exc) :
        run \in one_call_runs(fn, "") }

\* set_position / set_orientation once is_sim_started has run as started:
\* SimulationError if it reports a simulation, else the handle of relative
\* and the remote call
set_after_started(H, started, relative, fn) ==
    IF started.exc # "None" THEN { Run(started.calls, started.exc) }
    ELSE IF started.ret # 0 THEN { Run(started.calls, "SimulationError") }
    ELSE IF to_handle(H, relative).exc # "None"
    THEN { Run(started.calls, to_handle(H, relative).exc) }
    ELSE { Run(started.calls \o run.calls, run.exc) :
             run \in one_call_runs(fn, "") }

\* the outcome of `not allow_in_sim and self.vrep_sim.is_sim_started()`
\* as a run of is_sim_started (none, reporting no simulation, if allowed)
set_started_runs(H, o, allow_in_sim) ==
    IF allow_in_sim THEN { [calls |-> <<>>, exc |-> "None", ret |-> 0] }
    ELSE is_sim_started_runs(H.sim[o])

set_runs(H, o, relative, allow_in_sim, fn) ==
    IF precheck(H, o) # "None" THEN { Run(<<>>, precheck(H, o)) }
    ELSE UNION { set_after_started(H, started, relative, fn) :
                 started \in set_started_runs(H, o, allow_in_sim) }

set_orientation_runs(H, o, relative, allow_in_sim) ==
    set_runs(H, o, relative, allow_in_sim, "simxSetObjectOrientation")

set_position_runs(H, o, relative, allow_in_sim) ==
    set_runs(H, o, relative, allow_in_sim, "simxSetObjectPosition")

\* SceneObject.remove and Model.remove
remove_fn(H, o) ==
    IF H.kind[o] \in ModelClasses THEN "simxRemoveModel"
    ELSE "simxRemoveObject"

remove_runs(H, o) == forward_runs(H, o, remove_fn(H, o), "")

\* remove without its call of set_removed
remove_heap_unmarked(H, o, run) == H

\* the fields after remove ran as run: set_removed() once the server removed
remove_heap(H, o, run) ==
    IF run.exc = "None" THEN set_removed(H, o, FALSE) ELSE H

RECURSIVE Reach(_, _, _)
Reach(H, S, n) ==
    IF n = 0 THEN S
    ELSE Reach(H, S \cup UNION { H.children[x] : x \in S }, n - 1)

\* o and the objects registered below it
Descendants(H, o) == Reach(H, {o}, Cardinality(Objs))

\* what simxSetObjectParent may return: the server refuses to put an object
\* below itself or below one of its own descendants
set_parent_results(H, o, parent) ==
    IF parent.type = "SceneObject" /\ parent.o \in Descendants(H, o)
    THEN ResCodes \ {simx_return_ok}
    ELSE ResCodes

\* set_parent that leaves the object among the children of its old parent
set_parent_registers_keeping(H, o, parent) ==
    IF parent.type = "SceneObject"
    THEN register_parent(register_child(H, parent.o, o), o, parent.o)
    ELSE unregister_parent(H, o)

\* set_parent after the server set the parent: the old parent unregisters the
\* object (ValueError if it does not have it), the new one registers it
set_parent_registers(H, o, parent) ==
    LET H1 == IF H.parent[o] # NoRef
              THEN [unregister_child(H, H.parent[o], o)
                      EXCEPT !.parent[o] = NoRef]
              ELSE H
    IN  IF parent.type = "SceneObject"
        THEN register_parent(register_child(H1, parent.o, o), o, parent.o)
        ELSE H1

set_parent_call_run(H, o, call) ==
    IF not_ok(call.res) THEN Run(<< call >>, "ServerError")
    ELSE IF H.parent[o] # NoRef /\ unregister_child_raises(H, H.parent[o], o)
    THEN Run(<< call >>, "ValueError")
    ELSE Run(<< call >>, "None")

set_parent_runs(H, o, parent) ==
    IF precheck(H, o) # "None" THEN { Run(<<>>, precheck(H, o)) }
    ELSE IF to_handle(H, parent).exc # "None"
    THEN { Run(<<>>, to_handle(H, parent).exc) }
    ELSE { set_parent_call_run(H, o, Call("simxSetObjectParent", "", res, 0)) :
             res \in set_parent_results(H, o, parent) }

\* set_parent that updates the registry whatever the server answered
set_parent_heap_eager(H, o, parent, run) == set_parent_registers(H, o, parent)

set_parent_heap(H, o, parent, run) ==
    IF run.exc = "None" THEN set_parent_registers(H, o, parent) ELSE H

(* ------------------------ scene object actions ------------------------ *)

BoolStr(b) == IF b THEN "True" ELSE "False"

\* the objects, handles and other values a caller may pass for `relative`
\* or `parent`
RefArgs(H) ==
    {NoneArg, IntArg(0), IntArg(-1), OtherArg} \cup
    { ObjArg(p) : p \in Constructed(H) }

\* an invocation of a scene object method that changes no state
ObjMethod(op, o, arg, runs) ==
    /\ last = Idle
    /\ kind[o] # NoRef
    /\ \E run \in runs : last' = Invocation(op, o, arg, run.exc, run.calls)
    /\ UNCHANGED <<simvars, objvars, arrvars>>

call_script_func(o, script_type) ==
    ObjMethod("call_script_func", o, script_type,
              call_script_func_runs(Heap, o, script_type))

copy_paste(o) == ObjMethod("copy_paste", o, "", copy_paste_runs(Heap, o))

get_bbox_limits(o) ==
    ObjMethod("get_bbox_limits", o, "", get_bbox_limits_runs(Heap, o))

get_orientation(o, relative) ==
    ObjMethod("get_orientation", o, "", get_orientation_runs(Heap, o, relative))

set_orientation(o, relative, allow_in_sim) ==
    ObjMethod("set_orientation", o, BoolStr(allow_in_sim),
              set_orientation_runs(Heap, o, relative, allow_in_sim))

get_parent_handle(o) ==
    ObjMethod("get_parent_handle", o, "", get_parent_handle_runs(Heap, o))

get_position(o, relative) ==
    ObjMethod("get_position", o, "", get_position_runs(Heap, o, relative))

set_position(o, relative, allow_in_sim) ==
    ObjMethod("set_position", o, BoolStr(allow_in_sim),
              set_position_runs(Heap, o, relative, allow_in_sim))

set_velocity(o) ==
    /\ kind[o] = "Motor"
    /\ ObjMethod("set_velocity", o, "", set_velocity_runs(Heap, o))

get_inv_distance(o) ==
    /\ kind[o] = "ProximitySensor"
    /\ ObjMethod("get_inv_distance", o, "", get_inv_distance_runs(Heap, o))

get_depth_buffer(o) ==
    /\ kind[o] = "VisionSensor"
    /\ ObjMethod("get_depth_buffer", o, "", get_depth_buffer_runs(Heap, o))

get_image(o) ==
    /\ kind[o] = "VisionSensor"
    /\ ObjMethod("get_image", o, "", get_image_runs(Heap, o))

set_parent(o, parent) ==
    /\ last = Idle
    /\ kind[o] # NoRef
    /\ \E run \in set_parent_runs(Heap, o, parent) :
          /\ SetHeap(set_parent_heap(Heap, o, parent, run))
          /\ last' = Invocation("set_parent", o, parent.type, run.exc,
                                run.calls)
    /\ UNCHANGED <<simvars, arrvars>>

remove(o) ==
    /\ last = Idle
    /\ kind[o] # NoRef
    /\ \E run \in remove_runs(Heap, o) :
          /\ SetHeap(remove_heap(Heap, o, run))
          /\ last' = Invocation("remove", o, "", run.exc, run.calls)
    /\ UNCHANGED <<simvars, arrvars>>

\* the public set_removed(recursive), called by the program itself
call_set_removed(o, recursive) ==
    /\ last = Idle
    /\ kind[o] # NoRef
    /\ SetHeap(set_removed(Heap, o, recursive))
    /\ last' = Invocation("set_removed", o, BoolStr(recursive), "None", <<>>)
    /\ UNCHANGED <<simvars, arrvars>>

(* ------------------------------- arrays ------------------------------- *)

\* the lists of names a caller may give an array
NameSeqs == UNION { [1..n -> NameArgs] : n \in 0..MaxArrayLen }

\* how many interfaces the program may still construct
FreeObjs(H) == MaxObjects - Cardinality(Constructed(H))

\* an outcome of an array constructor: the fields afterwards, the calls
\* issued, the exception raised and the list built
ArrayOutcome(H, calls, exc, objs) ==
    [heap |-> H, calls |-> calls, exc |-> exc, objs |-> objs]

RECURSIVE array_init_from(_, _, _, _, _, _, _, _)
\* `[cls(name, parent, vrep_sim) for name in names]` from name i on, after
\* the calls in calls built objs; H0 holds the fields before the first name.
\* When a constructor raises, the objects built before it stay only as
\* children of the parent.
array_init_from(H0, H, cls, names, i, parent, sim, done) ==
    IF i > Len(names) THEN { ArrayOutcome(H, done.calls, "None", done.objs) }
    ELSE UNION {
           IF out.exc # "None"
           THEN { ArrayOutcome(IF parent.type = "SceneObject" THEN H ELSE H0,
                               done.calls \o out.calls, out.exc, <<>>) }
           ELSE array_init_from(H0, out.heap, cls, names, i + 1, parent, sim,
                    [calls |-> done.calls \o out.calls,
                     objs |-> Append(done.objs, out.obj)]) :
           out \in init_runs(H, cls, names[i], parent, sim) }

\* MotorArray.__init__ and ProximitySensorArray.__init__
array_init_runs(H, cls, names, parent, sim) ==
    array_init_from(H, H, cls, names, 1, parent, sim,
                    [calls |-> <<>>, objs |-> <<>>])

MotorArray_init(names, parent, sim) ==
    /\ last = Idle
    /\ _motors = <<>>
    /\ Len(names) <= FreeObjs(Heap)
    /\ communicator_sim(sim) \in ObjSims \cup {NoRef}
    /\ \E out \in array_init_runs(Heap, "Motor", names, parent, sim) :
          /\ SetHeap(out.heap)
          /\ _motors' = out.objs
          /\ last' = Invocation("MotorArray.__init__", NoRef, "", out.exc,
                                out.calls)
    /\ UNCHANGED <<simvars, _sensors>>

ProximitySensorArray_init(names, parent, sim) ==
    /\ last = Idle
    /\ _sensors = <<>>
    /\ Len(names) <= FreeObjs(Heap)
    /\ communicator_sim(sim) \in ObjSims \cup {NoRef}
    /\ \E out \in array_init_runs(Heap, "ProximitySensor", names, parent,
                                  sim) :
          /\ SetHeap(out.heap)
          /\ _sensors' = out.objs
          /\ last' = Invocation("ProximitySensorArray.__init__", NoRef, "",
                                out.exc, out.calls)
    /\ UNCHANGED <<simvars, _motors>>

RECURSIVE set_velocities_from(_, _, _, _)
\* `for m, motor in enumerate(self._motors): motor.set_velocity(...)` from
\* motor i on, after the calls in done
set_velocities_from(H, motors, i, done) ==
    IF i > Len(motors) THEN { Run(done, "None") }
    ELSE UNION {
           IF run.exc # "None" THEN { Run(done \o run.calls, run.exc) }
           ELSE set_velocities_from(H, motors, i + 1, done \o run.calls) :
           run \in set_velocity_runs(H, motors[i]) }

set_velocities_runs(H, motors) ==
    IF motors = <<>> THEN { Run(<<>>, "RuntimeError") }
    ELSE set_velocities_from(H, motors, 1, <<>>)

RECURSIVE get_inv_distances_from(_, _, _, _)
\* `[sensor.get_inv_distance() for sensor in self._sensors]` from sensor i on
get_inv_distances_from(H, sensors, i, done) ==
    IF i > Len(sensors) THEN { Run(done, "None") }
    ELSE UNION {
           IF run.exc # "None" THEN { Run(done \o run.calls, run.exc) }
           ELSE get_inv_distances_from(H, sensors, i + 1, done \o run.calls) :
           run \in get_inv_distance_runs(H, sensors[i]) }

get_inv_distances_runs(H, sensors) ==
    IF sensors = <<>> THEN { Run(<<>>, "RuntimeError") }
    ELSE get_inv_distances_from(H, sensors, 1, <<>>)

\* an invocation of an array method that changes no state
ArrayMethod(op, runs) ==
    /\ last = Idle
    /\ \E run \in runs : last' = Invocation(op, NoRef, "", run.exc, run.calls)
    /\ UNCHANGED <<simvars, objvars, arrvars>>

set_velocities ==
    ArrayMethod("set_velocities", set_velocities_runs(Heap, _motors))

get_inv_distances ==
    ArrayMethod("get_inv_distances", get_inv_distances_runs(Heap, _sensors))

(* ----------------------------- PioneerBot ----------------------------- *)

\* an outcome of PioneerBot.__init__: the fields afterwards, the calls
\* issued, the exception raised, the robot and its two arrays
BotOutcome(H, calls, exc, obj, sensors, motors) ==
    [heap |-> H, calls |-> calls, exc |-> exc, obj |-> obj,
     sensors |-> sensors, motors |-> motors]

\* the fields left when PioneerBot.__init__ raises after the robot was
\* constructed: the robot and what it built stay only below its parent
bot_failed_heap(H0, H, parent) ==
    IF parent.type = "SceneObject" THEN H ELSE H0

\* `self.wheels = MotorArray(motor_names, self, vrep_sim)`, after the robot
\* base and the array of sensors us were constructed
bot_wheels_runs(H0, base, us, motor_names, parent, sim) ==
    { IF wheels.exc # "None"
      THEN BotOutcome(bot_failed_heap(H0, wheels.heap, parent),
                      base.calls \o us.calls \o wheels.calls, wheels.exc,
                      NoRef, <<>>, <<>>)
      ELSE BotOutcome(wheels.heap, base.calls \o us.calls \o wheels.calls,
                      "None", base.obj, us.objs, wheels.objs) :
      wheels \in array_init_runs(us.heap, "Motor", motor_names,
                                 ObjArg(base.obj), sim) }

\* `self.us_sensors = ProximitySensorArray(us_sensor_names, self, vrep_sim)`
\* and what follows, after the robot base was constructed
bot_sensors_runs(H0, base, us_sensor_names, motor_names, parent, sim) ==
    UNION {
      IF us.exc # "None"
      THEN { BotOutcome(bot_failed_heap(H0, us.heap, parent),
                        base.calls \o us.calls, us.exc, NoRef, <<>>, <<>>) }
      ELSE bot_wheels_runs(H0, base, us, motor_names, parent, sim) :
      us \in array_init_runs(base.heap, "ProximitySensor", us_sensor_names,
                             ObjArg(base.obj), sim) }

\* PioneerBot.__init__(name, us_sensor_names, motor_names, parent, vrep_sim)
PioneerBot_init_runs(H, name, us_sensor_names, motor_names, parent, sim) ==
    UNION {
      IF base.exc # "None"
      THEN { BotOutcome(H, base.calls, base.exc, NoRef, <<>>, <<>>) }
      ELSE bot_sensors_runs(H, base, us_sensor_names, motor_names, parent,
                            sim) :
      base \in init_runs(H, "PioneerBot", name, parent, sim) }

\* the program constructs its robot, as its first scene object
\* the program constructs one robot, as its first or its second object
RobotFits(H) ==
    /\ Cardinality(Constructed(H)) <= 1
    /\ \A o \in Objs : H.kind[o] # "PioneerBot"

PioneerBot_init(name, us_sensor_names, motor_names, parent, sim) ==
    /\ last = Idle
    /\ RobotFits(Heap)
    /\ 1 + Len(us_sensor_names) + Len(motor_names)
          <= Cardinality(Objs) - Cardinality(Constructed(Heap))
    /\ communicator_sim(sim) \in ObjSims \cup {NoRef}
    /\ \E out \in PioneerBot_init_runs(Heap, name, us_sensor_names,
                                        motor_names, parent, sim) :
          /\ SetHeap(out.heap)
          /\ _sensors' = out.sensors
          /\ _motors' = out.motors
          /\ last' = Invocation("PioneerBot.__init__", out.obj, name, out.exc,
                                out.calls)
    /\ UNCHANGED simvars

(* ------------------------- values returned ---------------------------- *)

\* the values of the underlying unsigned type, and the gap between two
\* starts of a buffer
BYTE_VALUES == 256

RampStartStep == 63

\* values per pixel of an image that is not grayscale
RGB == 3

\* range(0, stop, step) of Python, for a positive step
PyRange(stop, step) ==
    [k \in 1..((stop + step - 1) \div step) |-> (k - 1) * step]

\* seq kept in the order it has
Reversed_kept(seq) == seq

\* reversed(seq)
Reversed(seq) == [k \in 1..Len(seq) |-> seq[Len(seq) + 1 - k]]

\* seq[a:b] of Python for 0 <= a <= b: the elements there are of it
Slice(seq, a, b) ==
    SubSeq(seq, a + 1, IF b <= Len(seq) THEN b ELSE Len(seq))

\* the resolutions a vision sensor reports, <<width, height>>
Resolutions == (1..MaxWidth) \X (1..MaxHeight)

\* buffers of n values that differ from element to element
Ramps(n) ==
    { [i \in 1..n |-> (start * RampStartStep + (i - 1) * step) % BYTE_VALUES] :
        start \in 0..MaxRampStart, step \in 1..MaxRampStep }

\* the images simxGetVisionSensorImage returns for a resolution: signed
\* bytes, bottom-up rows, one value per pixel or three
RawImages(resolution, grayscale) ==
    { [i \in 1..Len(ramp) |->
         IF ramp[i] >= BYTE_VALUES \div 2 THEN ramp[i] - BYTE_VALUES
         ELSE ramp[i]] :
        ramp \in Ramps((IF grayscale THEN 1 ELSE RGB)
                       * resolution[1] * resolution[2]) }

\* `[buffer[p:p+width] for p in reversed(range(0, n, width))]`
arrange_rows(pixels, n, width) ==
    LET ps == Reversed(PyRange(n, width))
    IN  [k \in 1..Len(ps) |-> Slice(pixels, ps[k], ps[k] + width)]

\* what get_depth_buffer returns for the buffer the server returned
get_depth_buffer_value(resolution, buffer) ==
    LET width  == resolution[1]
        height == resolution[2]
    IN  arrange_rows(buffer, width * height, width)

\* what get_image returns for the image the server returned
get_image_value(resolution, image, grayscale) ==
    LET vals == [i \in 1..Len(image) |->
                   IF image[i] >= 0 THEN image[i]
                   ELSE image[i] + BYTE_VALUES]
        width    == resolution[1]
        height   == resolution[2]
        n_pixels == width * height
        ps       == PyRange(RGB * n_pixels, RGB)
        pixels   == IF ~grayscale
                    THEN [k \in 1..Len(ps) |-> Slice(vals, ps[k], ps[k] + RGB)]
                    ELSE vals
    IN  arrange_rows(pixels, n_pixels, width)

\* run with the value val as what its last remote call returned
WithValue(run, val) ==
    [run EXCEPT !.calls[Len(run.calls)].val = val]

\* VisionSensor.get_image(grayscale), with the image it returns
VisionSensor_get_image(o, grayscale) ==
    /\ last = Idle
    /\ kind[o] = "VisionSensor"
    /\ \E run \in get_image_runs(Heap, o) :
          IF run.exc # "None"
          THEN last' = Invocation("get_image", o, BoolStr(grayscale),
                                  run.exc, run.calls)
          ELSE \E resolution \in Resolutions :
                  \E image \in RawImages(resolution, grayscale) :
                     last' = Returning(
                        Invocation("get_image", o, BoolStr(grayscale), "None",
                           WithValue(run, << resolution, image >>).calls),
                        get_image_value(resolution, image, grayscale))
    /\ UNCHANGED <<simvars, objvars, arrvars>>

\* VisionSensor.get_depth_buffer(), with the buffer it returns
VisionSensor_get_depth_buffer(o) ==
    /\ last = Idle
    /\ kind[o] = "VisionSensor"
    /\ \E run \in get_depth_buffer_runs(Heap, o) :
          IF run.exc # "None"
          THEN last' = Invocation("get_depth_buffer", o, "", run.exc,
                                  run.calls)
          ELSE \E resolution \in Resolutions :
                  \E buffer \in Ramps(resolution[1] * resolution[2]) :
                     last' = Returning(
                        Invocation("get_depth_buffer", o, "", "None",
                           WithValue(run, << resolution, buffer >>).calls),
                        get_depth_buffer_value(resolution, buffer))
    /\ UNCHANGED <<simvars, objvars, arrvars>>

\* round(lim, prec) for a limit counted in tenths of the last digit that
\* prec keeps.  A limit halfway between two values goes to the even one
\* (Python 3) or away from zero (Python 2).
round_value(lim, half_even) ==
    LET lo == 10 * (lim \div 10)
        r  == lim - lo
    IN  IF r < 5 THEN lo
        ELSE IF r > 5 THEN lo + 10
        ELSE IF half_even
        THEN (IF (lo \div 10) % 2 = 0 THEN lo ELSE lo + 10)
        ELSE (IF lim > 0 THEN lo + 10 ELSE lo)

\* the limits paired by their place in the first and in the second half
get_bbox_limits_value_halves(bbox_limits) ==
    [a \in 1..(Len(bbox_limits) \div 2) |->
       << bbox_limits[a], bbox_limits[a + Len(bbox_limits) \div 2] >>]

\* `[[min_lim, max_lim] for min_lim, max_lim in
\*   zip(bbox_limits[::2], bbox_limits[1::2])]`
get_bbox_limits_value(bbox_limits) ==
    [a \in 1..(Len(bbox_limits) \div 2) |->
       << bbox_limits[2 * a - 1], bbox_limits[2 * a] >>]

\* get_bbox_limits(prec) of SceneObject and of Model, with the limits it
\* returns: prec is "default" (VREP_FLOAT_PREC for a scene object, None for a
\* model), "None" or a precision
SceneObject_get_bbox_limits(o, prec) ==
    /\ last = Idle
    /\ kind[o] # NoRef
    /\ \E run \in get_bbox_limits_runs(Heap, o) :
          IF run.exc # "None"
          THEN last' = Invocation("get_bbox_limits", o, prec, run.exc,
                                  run.calls)
          ELSE \E lims \in [1..Len(run.calls) -> {-6, 5, 14}],
                  half_even \in BOOLEAN :
                  LET rounds == IF prec = "default"
                                THEN kind[o] \notin ModelClasses
                                ELSE prec # "None"
                      calls  == [i \in 1..Len(run.calls) |->
                                   [run.calls[i] EXCEPT !.val = lims[i]]]
                      bbox_limits ==
                         [i \in 1..Len(run.calls) |->
                            IF rounds THEN round_value(lims[i], half_even)
                            ELSE lims[i]]
                  IN  last' = Returning(
                         Invocation("get_bbox_limits", o, prec, "None", calls),
                         get_bbox_limits_value(bbox_limits))
    /\ UNCHANGED <<simvars, objvars, arrvars>>

\* the caller takes the result or the exception of the invocation
Return ==
    /\ last # Idle
    /\ last' = Idle
    /\ UNCHANGED <<simvars, objvars, arrvars>>

Init ==
    /\ _client_id = [s \in Sims |-> None]
    /\ _vrep_sim = NoRef
    /\ kind = [o \in Objs |-> NoRef]
    /\ _name = [o \in Objs |-> EMPTY_NAME]
    /\ _handle = [o \in Objs |-> MISSING_HANDLE]
    /\ _parent = [o \in Objs |-> NoRef]
    /\ _children = [o \in Objs |-> {}]
    /\ vrep_sim = [o \in Objs |-> NoRef]
    /\ _motors = <<>>
    /\ _sensors = <<>>
    /\ last = Idle

Next ==
    \/ \E s \in Sims : connect(s)
    \/ \E s \in Sims : disconnect(s)
    \/ \E s \in Sims : get_dyn_eng_dt(s)
    \/ \E s \in Sims : get_dyn_eng_name(s)
    \/ \E s \in Sims : get_scene_path(s)
    \/ \E s \in Sims : get_sim_dt(s)
    \/ \E s \in Sims : get_version(s)
    \/ \E s \in Sims : is_sim_started(s)
    \/ \E s \in Sims : start_sim(s)
    \/ \E s \in Sims : stop_sim(s)
    \/ \E s \in Sims : trig_sim_step(s)
    \/ \E cls \in Classes, name \in NameArgs, parent \in ParentArgs(Heap),
          sim \in SimArgs :
          FreeObjs(Heap) >= 1 /\ SceneObject_init(cls, name, parent, sim)
    \/ \E o \in Objs, t \in ScriptTypeArgs : call_script_func(o, t)
    \/ \E o \in Objs : copy_paste(o)
    \/ \E o \in Objs : get_bbox_limits(o)
    \/ \E o \in Objs, relative \in RefArgs(Heap) : get_orientation(o, relative)
    \/ \E o \in Objs, relative \in RefArgs(Heap), allow \in BOOLEAN :
          set_orientation(o, relative, allow)
    \/ \E o \in Objs : get_parent_handle(o)
    \/ \E o \in Objs, relative \in RefArgs(Heap) : get_position(o, relative)
    \/ \E o \in Objs, relative \in RefArgs(Heap), allow \in BOOLEAN :
          set_position(o, relative, allow)
    \/ \E o \in Objs, parent \in RefArgs(Heap) : set_parent(o, parent)
    \/ \E o \in Objs : remove(o)
    \/ \E o \in Objs, recursive \in BOOLEAN : call_set_removed(o, recursive)
    \/ \E o \in Objs : set_velocity(o)
    \/ \E o \in Objs : get_inv_distance(o)
    \/ \E o \in Objs : get_depth_buffer(o)
    \/ \E o \in Objs : get_image(o)
    \/ \E names \in NameSeqs, parent \in ParentArgs(Heap), sim \in SimArgs :
          MotorArray_init(names, parent, sim)
    \/ \E names \in NameSeqs, parent \in ParentArgs(Heap), sim \in SimArgs :
          ProximitySensorArray_init(names, parent, sim)
    \/ set_velocities
    \/ get_inv_distances
    \/ Return

Spec == Init /\ [][Next]_vars

\* the classes the program that builds a tree constructs directly
TreeClasses == {"SceneObject", "Model"}

\* The program that builds a tree of scene objects on one simulator, with a
\* robot or without, rearranges it with set_parent and removes objects.
NextTree ==
    \/ \E s \in ObjSims : connect(s)
    \/ \E cls \in TreeClasses, name \in NameArgs,
          parent \in ParentArgs(Heap), sim \in SimArgs :
          SceneObject_init(cls, name, parent, sim)
    \/ /\ last = Idle
       /\ RobotFits(Heap)
       /\ \E name \in NameArgs, us_sensor_names \in NameSeqs,
             motor_names \in NameSeqs, parent \in ParentArgs(Heap),
             sim \in SimArgs :
             PioneerBot_init(name, us_sensor_names, motor_names, parent, sim)
    \/ \E o \in Objs, parent \in RefArgs(Heap) : set_parent(o, parent)
    \/ \E o \in Objs : remove(o)
    \/ set_velocities
    \/ get_inv_distances
    \/ Return

SpecTree == Init /\ [][NextTree]_vars

\* The program that reads values: it connects, constructs one interface and
\* asks it for images, depth buffers and the limits of its bounding box.
NextValues ==
    \/ \E s \in ObjSims : connect(s)
    \/ \E cls \in Classes, name \in NameArgs, parent \in ParentArgs(Heap),
          sim \in SimArgs :
          Constructed(Heap) = {} /\ SceneObject_init(cls, name, parent, sim)
    \/ \E o \in Objs, grayscale \in BOOLEAN :
          VisionSensor_get_image(o, grayscale)
    \/ \E o \in Objs : VisionSensor_get_depth_buffer(o)
    \/ \E o \in Objs, prec \in {"default", "None", "VREP_FLOAT_PREC"} :
          SceneObject_get_bbox_limits(o, prec)
    \/ Return

SpecValues == Init /\ [][NextValues]_vars

(* ------------------------------ properties ---------------------------- *)

\* the objects constructed in the current state
Objects == Constructed(Heap)

\* C1: at most one Simulator has a client id, and the default simulator is
\* that Simulator if there is one and None otherwise: a Simulator is
\* connected exactly if it is the default simulator.
C1_OneConnectionIsDefault ==
    /\ get_default_simulator \in Sims \cup {NoRef}
    /\ \A s \in Sims : (_client_id[s] # None) <=> (get_default_simulator = s)
    /\ \A s, t \in Sims :
          _client_id[s] # None /\ _client_id[t] # None => s = t

\* a connect on one simulator was refused while another one is connected
C1_Witness ==
    /\ last.op = "connect"
    /\ last.exc = "ConnectionError"
    /\ \E s \in Sims : s # last.self /\ _client_id[s] # None

\* the value simxStart returned in the invocation inv
StartValue(inv) == inv.calls[Len(inv.calls)].val

C2_Step ==
    /\ \A s \in Sims :
          _client_id[s] = None /\ _client_id'[s] # None =>
             last'.op = "connect" /\ last'.self = s /\ last'.exc = "None"
    /\ last'.op = "connect" /\ last'.exc = "None" =>
          /\ last'.calls # <<>>
          /\ last'.calls[Len(last'.calls)].fn = "simxStart"
          /\ StartValue(last') # -1
          /\ _client_id'[last'.self] # None
          /\ _client_id'[last'.self] = Some(StartValue(last'))
    /\ last'.op = "disconnect" =>
          last'.exc = "None" /\ _client_id'[last'.self] = None

\* C2: a client id is None from construction until a connect succeeds; a
\* successful connect leaves exactly the id simxStart returned, which is
\* neither -1 nor None; after disconnect it is None.
C2_ClientIdLifecycle ==
    /\ \A s \in Sims : _client_id[s] = None
    /\ [][C2_Step]_vars

\* a simulator that was connected has been disconnected
C2_Witness ==
    /\ last.op = "disconnect"
    /\ last.calls # <<>>
    /\ _client_id[last.self] = None

\* C3: the handle of every scene object is a valid handle (not negative),
\* MISSING_HANDLE or REMOVED_OBJ_HANDLE, so the handle property never takes
\* its "invalid handle" branch (simxGetObjectHandle returns handles that are
\* not negative with result code ok: ServerHandles).
C3_HandleValidMissingOrRemoved ==
    \A o \in Objects :
       /\ \/ _handle[o] >= 0
          \/ _handle[o] = MISSING_HANDLE
          \/ _handle[o] = REMOVED_OBJ_HANDLE
       /\ handle(Heap, o).msg # "invalid handle"

\* an object with a valid handle, one with a missing handle and a removed one
C3_Witness ==
    /\ \E o \in Objects : _handle[o] = REMOVED_OBJ_HANDLE
    /\ \E o \in Objects : _handle[o] = MISSING_HANDLE \/ _handle[o] >= 0
    /\ last.op = "remove"
    /\ last.exc = "None"

\* the remote calls in calls that look a handle up
Lookups(calls) ==
    { i \in 1..Len(calls) : calls[i].fn = "simxGetObjectHandle" }

\* the objects the step constructs with a name
NewNamed ==
    { o \in Objs : kind[o] = NoRef /\ kind'[o] # NoRef
                   /\ _name'[o] # EMPTY_NAME }

ConstructorOps ==
    {"__init__", "MotorArray.__init__", "ProximitySensorArray.__init__"}

C4_Step ==
    /\ last'.op \in ConstructorOps /\ last'.exc = "None" =>
          Cardinality(Lookups(last'.calls)) = Cardinality(NewNamed)
    /\ last'.op = "__init__" /\ NewNamed # {} =>
          /\ Cardinality(Lookups(last'.calls)) = 1
          /\ _handle'[last'.self] = last'.calls[1].val
    /\ last'.op \notin ConstructorOps /\ last'.op # "idle" =>
          Lookups(last'.calls) = {}
    /\ \A o \in Objs :
          kind[o] # NoRef /\ _name[o] # EMPTY_NAME =>
             \/ _handle'[o] = _handle[o]
             \/ _handle'[o] = REMOVED_OBJ_HANDLE

\* C4: the handle of an object with a name is looked up exactly once, by its
\* constructor; no later operation (after a disconnect and reconnect of its
\* simulator either) looks a handle up, and the cached handle changes only
\* by becoming REMOVED_OBJ_HANDLE.
C4_HandleLookedUpOnce == [][C4_Step]_vars

\* the simulator of a constructed object with a name and a valid handle has
\* just connected again
C4_Witness ==
    /\ last.op = "connect"
    /\ last.exc = "None"
    /\ \E o \in Objects :
          /\ _name[o] # EMPTY_NAME
          /\ _handle[o] >= 0
          /\ vrep_sim[o] = last.self

C5_Step ==
    /\ /\ last'.op = "remove"
       /\ Len(last'.calls) = 1
       /\ last'.calls[1].res = simx_return_ok
       => /\ last'.exc = "None"
          /\ _handle'[last'.self] = REMOVED_OBJ_HANDLE
          /\ removed(Heap', last'.self)
    /\ \A o \in Objs :
          kind[o] # NoRef /\ removed(Heap, o) =>
             /\ removed(Heap', o)
             /\ ~(_handle'[o] >= 0)

\* C5: remove marks the object with REMOVED_OBJ_HANDLE when the server
\* returns ok; a removed object stays removed: no operation gives it a valid
\* handle again.
C5_RemovalAbsorbing == [][C5_Step]_vars

\* a forwarding operation was tried on a removed object with a name
C5_Witness ==
    /\ last.op \in {"copy_paste", "remove", "get_position"}
    /\ last.exc = "RuntimeError"
    /\ _handle[last.self] = REMOVED_OBJ_HANDLE
    /\ _name[last.self] # EMPTY_NAME

\* the forwarding operations of a scene object
ObjForwardOps ==
    {"copy_paste", "get_position", "set_position", "get_orientation",
     "set_orientation", "get_parent_handle", "set_parent", "get_bbox_limits",
     "remove", "set_velocity", "get_inv_distance", "get_image",
     "get_depth_buffer", "call_script_func"}

\* an invocation of call_script_func with a script type it does not support
UnsupportedScript(inv) ==
    inv.op = "call_script_func" /\ inv.arg \notin ASSOC_SCRIPT_TYPES

C6_Step ==
    /\ /\ last'.op \in ObjForwardOps
       /\ ~UnsupportedScript(last')
       /\ _handle[last'.self] \in {MISSING_HANDLE, REMOVED_OBJ_HANDLE}
       => last'.exc = "RuntimeError" /\ last'.calls = <<>>
    /\ last'.op = "__init__" /\ last'.arg = "" => last'.calls = <<>>
    /\ \A o \in Objs :
          kind'[o] # NoRef /\ _handle'[o] = MISSING_HANDLE =>
             _name'[o] = EMPTY_NAME

\* C6: on an object whose handle is MISSING_HANDLE (constructed with an empty
\* name, without a remote call) or REMOVED_OBJ_HANDLE, every forwarding
\* operation (call_script_func with a supported script type) raises
\* RuntimeError without a remote call, whether its simulator is connected or
\* not.
C6_SentinelHandleRaises == [][C6_Step]_vars

\* a forwarding operation raised RuntimeError on an object without a handle
\* whose simulator is not connected
C6_Witness ==
    /\ last.op \in ObjForwardOps
    /\ last.exc = "RuntimeError"
    /\ _handle[last.self] \in {MISSING_HANDLE, REMOVED_OBJ_HANDLE}
    /\ client_id(Heap, last.self) = None

\* the query and control operations of a Simulator
SimOps ==
    {"get_dyn_eng_dt", "get_dyn_eng_name", "get_scene_path", "get_sim_dt",
     "get_version", "is_sim_started", "start_sim", "stop_sim",
     "trig_sim_step"}

\* the step invokes an operation in ops against a simulator that is not
\* connected: on the simulator, or on an object with a valid handle
OnDisconnected(ops) ==
    /\ last'.op \in ops
    /\ \/ last'.op \in SimOps /\ _client_id[last'.self] = None
       \/ /\ last'.op \in ObjForwardOps
          /\ _handle[last'.self] >= 0
          /\ client_id(Heap, last'.self) = None

C7_Step ==
    OnDisconnected(SimOps \cup ObjForwardOps) /\ ~UnsupportedScript(last') =>
       last'.exc = "ConnectionError" /\ last'.calls = <<>>

\* C7: while the client id is None, every query and control operation of
\* the Simulator and every forwarding operation on an object with a valid
\* handle bound to it (call_script_func with a supported script type) raises
\* ConnectionError and issues no remote call.
C7_DisconnectedRaises == [][C7_Step]_vars

\* a forwarding operation raised ConnectionError on an object with a valid
\* handle
C7_Witness ==
    /\ last.op \in ObjForwardOps
    /\ last.exc = "ConnectionError"
    /\ last.calls = <<>>
    /\ _handle[last.self] >= 0
    /\ client_id(Heap, last.self) = None

C7_AsWritten_Step ==
    OnDisconnected(SimOps \cup ObjForwardOps) =>
       last'.exc = "ConnectionError" /\ last'.calls = <<>>

\* C7 as the specification states it: every forwarding operation on an
\* object with a valid handle, call_script_func with any script type
\* included, raises ConnectionError while the client id is None.
C7_AsWritten == [][C7_AsWritten_Step]_vars

\* the three categories of VREPSimError
ErrorCategories == {"ConnectionError", "ServerError", "SimulationError"}

\* the remote calls of the invocation that returned a result code
ResultCoded(inv) == { i \in 1..Len(inv.calls) : inv.calls[i].res \in ResCodes }

\* the remote functions whose callers take simx_return_novalue_flag for
\* success
NoValueAccepted ==
    {"simxStartSimulation", "simxStopSimulation", "simxReadProximitySensor"}

\* the result code c makes its caller raise
Rejected(c) ==
    IF c.fn \in NoValueAccepted
    THEN c.res \notin {simx_return_ok, simx_return_novalue_flag}
    ELSE c.res # simx_return_ok

\* C8: a remote call that returns a result code other than simx_return_ok
\* (for simxStartSimulation, simxStopSimulation and simxReadProximitySensor:
\* other than ok and the no-value flag) makes the operation raise
\* ConnectionError, ServerError or SimulationError.
C8_RejectedCodeRaises ==
    \A i \in ResultCoded(last) :
       Rejected(last.calls[i]) => last.exc \in ErrorCategories

\* start_sim raised ServerError for the code simxStartSimulation returned
C8_Witness ==
    /\ last.op = "start_sim"
    /\ Len(last.calls) = 2
    /\ last.calls[2].res = simx_return_remote_error_flag
    /\ last.exc = "ServerError"

\* C8 as the specification states it: every result code other than
\* simx_return_ok makes the operation raise.
C8_AsWritten ==
    \A i \in ResultCoded(last) :
       last.calls[i].res # simx_return_ok => last.exc \in ErrorCategories

\* the remote call c failed: its caller raises for what it returned
Failing(c) ==
    \/ c.res \in ResCodes /\ Rejected(c)
    \/ c.fn = "simxGetInMessageInfo" /\ c.res = "-1"

\* C9: a remote call that fails is the last remote call of its operation,
\* which raises: nothing is retried and nothing further is called (start_sim
\* issues no simxStartSimulation after a failed simxSynchronous,
\* is_sim_started no simxGetInMessageInfo after a failed refresh,
\* get_bbox_limits and the array operations stop at the first failure).
C9_NoCallAfterFailure ==
    \A i \in 1..Len(last.calls) :
       Failing(last.calls[i]) =>
          /\ i = Len(last.calls)
          /\ last.exc # "None"

\* set_velocities stopped at the first of two motors, whose call failed
C9_Witness ==
    /\ last.op = "set_velocities"
    /\ Len(_motors) = 2
    /\ Len(last.calls) = 1
    /\ Failing(last.calls[1])
    /\ last.exc = "ServerError"

\* the step invokes a forwarding method on a connected simulator, or on an
\* object with a valid handle whose simulator is connected, and the method
\* raises for none of its checks
PassesChecks ==
    /\ last'.exc \in {"None", "ServerError"}
    /\ \/ last'.op \in SimOps /\ _client_id[last'.self] # None
       \/ /\ last'.op \in ObjForwardOps
          /\ _handle[last'.self] >= 0
          /\ client_id(Heap, last'.self) # None

\* the most remote calls the invocation may issue: one, but one per limit for
\* get_bbox_limits, two for start_sim and is_sim_started, and the two of
\* is_sim_started more for set_position and set_orientation with
\* allow_in_sim false
MostCalls(inv) ==
    CASE inv.op = "get_bbox_limits" -> Len(OBJ_BBOX_LIMITS)
      [] inv.op \in {"start_sim", "is_sim_started"} -> 2
      [] inv.op \in {"set_position", "set_orientation"} ->
            IF inv.arg = "False" THEN 3 ELSE 1
      [] OTHER -> 1

C10_Step ==
    PassesChecks =>
       /\ Len(last'.calls) >= 1
       /\ Len(last'.calls) <= MostCalls(last')
       /\ last'.exc = "None" => Len(last'.calls) = MostCalls(last')

\* C10: a forwarding method that passes its checks issues exactly one remote
\* call, except get_bbox_limits (one call per limit: six, fewer when one
\* fails), start_sim and is_sim_started (two calls, one when the first
\* fails) and set_position and set_orientation with allow_in_sim false
\* (is_sim_started's calls, then their own: three).
C10_CallsPerMethod == [][C10_Step]_vars

\* get_bbox_limits returned after six remote calls
C10_Witness ==
    /\ last.op = "get_bbox_limits"
    /\ last.exc = "None"
    /\ Len(last.calls) = 6

C10_AsWritten_Step == PassesChecks => Len(last'.calls) = 1

\* C10 as the specification states it: every forwarding method that passes
\* its checks issues exactly one remote call.
C10_AsWritten == [][C10_AsWritten_Step]_vars

\* the operations that change the fields of scene objects that exist: the
\* constructors register the new object with its parent
RegistryOps ==
    ConstructorOps \cup {"set_parent", "remove", "set_removed"}

C11_Step ==
    /\ \A o \in Objs :
          kind[o] # NoRef =>
             /\ kind'[o] = kind[o]
             /\ _name'[o] = _name[o]
             /\ vrep_sim'[o] = vrep_sim[o]
    /\ last'.op \notin RegistryOps =>
          /\ kind' = kind
          /\ _name' = _name
          /\ _handle' = _handle
          /\ _parent' = _parent
          /\ _children' = _children
          /\ vrep_sim' = vrep_sim

C11_AsWritten_Step ==
    \A o \in Objs :
       kind[o] # NoRef =>
          /\ _parent'[o] = _parent[o]
          /\ _children'[o] = _children[o]
          /\ vrep_sim'[o] = vrep_sim[o]

OtherConnected(s) ==
    /\ _vrep_sim \in Sims \ {s}
    /\ _client_id[_vrep_sim] # None

C12_Step ==
    /\ last'.op = "connect"
    /\ _client_id[last'.self] = None
    /\ OtherConnected(last'.self)
    => /\ last'.exc = "ConnectionError"
       /\ last'.calls = <<>>
       /\ _client_id' = _client_id
       /\ _vrep_sim' = _vrep_sim

\* C12: connect on a Simulator that is not connected, while another
\* Simulator is the connected default, raises ConnectionError before any
\* remote call (simxFinish(-1) included) and leaves the client ids of both
\* and the default simulator as they were.
C12_ConnectRefused == [][C12_Step]_vars

\* connect was refused on one simulator and the other is still the connected
\* default
C12_Witness ==
    /\ last.op = "connect"
    /\ last.exc = "ConnectionError"
    /\ last.calls = <<>>
    /\ _client_id[last.self] = None
    /\ OtherConnected(last.self)

\* the positions of the calls of simxStart in the invocation
Starts(inv) == { i \in 1..Len(inv.calls) : inv.calls[i].fn = "simxStart" }

C13_Step ==
    last'.op = "connect" =>
       /\ \A i \in Starts(last') :
             /\ i > 1
             /\ last'.calls[i - 1] = Call("simxFinish", "-1", "", 0)
       /\ \A i \in Starts(last') :
             last'.calls[i].val = -1 =>
                /\ last'.exc = "ConnectionError"
                /\ _client_id'[last'.self] = None
                /\ _vrep_sim' = NoRef

\* C13: every simxStart of connect comes after simxFinish(-1) in the same
\* invocation, and a connect or reconnect whose simxStart returns -1 raises
\* ConnectionError and leaves the simulator disconnected (client id None,
\* default simulator None), also when it was connected before.
C13_FailedStartDisconnects == [][C13_Step]_vars

\* a reconnect of the connected simulator failed and disconnected it
C13_Witness ==
    /\ last.op = "connect"
    /\ last.arg = "reconnected"
    /\ last.exc = "ConnectionError"
    /\ Starts(last) # {}
    /\ _client_id[last.self] = None
    /\ _vrep_sim = NoRef

C14_Step ==
    /\ last'.op = "disconnect" /\ _client_id[last'.self] = None =>
          /\ last'.calls = <<>>
          /\ last'.exc = "None"
          /\ _client_id' = _client_id
          /\ _vrep_sim' = _vrep_sim
          /\ UNCHANGED <<objvars, arrvars>>
    /\ last'.op = "disconnect" => _client_id'[last'.self] = None

\* C14: disconnect on a Simulator whose client id is None issues no remote
\* call, raises nothing and changes no state (the default simulator and the
\* connection of another Simulator stay); a disconnect leaves the client id
\* None, so a second disconnect changes nothing.
C14_DisconnectWithoutConnection == [][C14_Step]_vars

\* disconnect did nothing on a simulator without a connection while the other
\* simulator is the connected default
C14_Witness ==
    /\ last.op = "disconnect"
    /\ last.calls = <<>>
    /\ last.exc = "None"
    /\ OtherConnected(last.self)

\* the positions of the remote set calls in the invocation
SetCalls(inv) ==
    { i \in 1..Len(inv.calls) :
        inv.calls[i].fn \in {"simxSetObjectPosition",
                             "simxSetObjectOrientation"} }

\* the positions of the remote calls is_sim_started makes
StartedQueries(inv) ==
    { i \in 1..Len(inv.calls) :
        inv.calls[i].fn \in {"simxGetBooleanParameter",
                             "simxGetInMessageInfo"} }

\* is_sim_started ran to its end in the first two calls of the invocation
\* and returned value
StartedReturned(inv, value) ==
    /\ Len(inv.calls) >= 2
    /\ inv.calls[1].fn = "simxGetBooleanParameter"
    /\ inv.calls[1].res = simx_return_ok
    /\ inv.calls[2].fn = "simxGetInMessageInfo"
    /\ inv.calls[2].res # "-1"
    /\ sim_started_value(inv.calls[2].val) = value

\* C15: set_position and set_orientation with allow_in_sim false issue the
\* remote set call only after is_sim_started returned a false value in the
\* same invocation; when it reports a started simulation they raise
\* SimulationError and issue no set call; with allow_in_sim true
\* is_sim_started is not queried.
C15_SetOnlyWhenStopped ==
    last.op \in {"set_position", "set_orientation"} =>
       /\ last.arg = "False" =>
             /\ \A i \in SetCalls(last) : i = 3 /\ StartedReturned(last, 0)
             /\ \A v \in 1..MaxServerState :
                   StartedReturned(last, v) =>
                      /\ last.exc = "SimulationError"
                      /\ SetCalls(last) = {}
                      /\ Len(last.calls) = 2
       /\ last.arg = "True" =>
             /\ StartedQueries(last) = {}
             /\ last.exc # "SimulationError"

\* set_position was refused because a simulation is started
C15_Witness ==
    /\ last.op = "set_position"
    /\ last.arg = "False"
    /\ StartedReturned(last, 1)
    /\ last.exc = "SimulationError"

\* the elements of a sequence
Elements(seq) == { seq[i] : i \in 1..Len(seq) }

\* the step is a successful remove on a model
ModelRemoved ==
    /\ last'.op = "remove"
    /\ last'.exc = "None"
    /\ kind[last'.self] \in ModelClasses

C16_Step ==
    /\ ModelRemoved =>
          \A d \in Descendants(Heap, last'.self) : removed(Heap', d)
    /\ last'.op = "PioneerBot.__init__" /\ last'.exc = "None" =>
          /\ kind'[last'.self] = "PioneerBot"
          /\ \A e \in Elements(_sensors') \cup Elements(_motors') :
                /\ e \in _children'[last'.self]
                /\ _parent'[e] = last'.self
                /\ e \in Descendants(Heap', last'.self)
    /\ /\ last'.op = "set_velocities"
       /\ _motors # <<>>
       /\ \A e \in Elements(_motors) : removed(Heap, e)
       => last'.exc = "RuntimeError" /\ last'.calls = <<>>
    /\ /\ last'.op = "get_inv_distances"
       /\ _sensors # <<>>
       /\ \A e \in Elements(_sensors) : removed(Heap, e)
       => last'.exc = "RuntimeError" /\ last'.calls = <<>>

PlainRemoved ==
    /\ last'.op = "remove"
    /\ last'.exc = "None"
    /\ kind[last'.self] \notin ModelClasses

C17_Step ==
    PlainRemoved =>
       LET o == last'.self
           p == _parent[o]
       IN  /\ removed(Heap', o)
           /\ \A x \in Objects \ {o} : _handle'[x] = _handle[x]
           /\ \A c \in _children[o] :
                 /\ ~removed(Heap', c)
                 /\ IF p # NoRef
                    THEN c \in _children'[p] /\ _parent'[c] = p
                    ELSE _parent'[c] = NoRef

C19_RemovedDetached ==
    \A r \in Objects :
       removed(Heap, r) =>
          /\ _parent[r] = NoRef
          /\ _children[r] = {}
          /\ \A o \in Objects :
                ~removed(Heap, o) => r \notin _children[o] /\ _parent[o] # r

\* the step is set_parent(parent) on o, running as run
SetParentStep(o, parent, run) ==
    /\ last = Idle
    /\ last' = Invocation("set_parent", o, parent.type, run.exc, run.calls)
    /\ Heap' = set_parent_heap(Heap, o, parent, run)

\* what set_parent(parent) on o leaves when it ran as run
SetParentPost(o, parent, run) ==
    LET old == _parent[o]
    IN  /\ run.exc = "None" =>
           /\ old # NoRef /\ parent # ObjArg(old) => o \notin _children'[old]
           /\ parent.type = "SceneObject" =>
                 /\ o \in _children'[parent.o]
                 /\ _parent'[o] = parent.o
           /\ parent.type \in {"None", "int"} => _parent'[o] = NoRef
        /\ /\ parent.type = "SceneObject"
           /\ \/ removed(Heap, parent.o)
              \/ _handle[parent.o] = MISSING_HANDLE
           => /\ run.exc # "None"
              /\ run.calls = <<>>
              /\ precheck(Heap, o) = "None" => run.exc = "RuntimeError"
              /\ UNCHANGED objvars

C20_Step ==
    \A o \in Objects, parent \in RefArgs(Heap) :
       \A run \in set_parent_runs(Heap, o, parent) :
          SetParentStep(o, parent, run) => SetParentPost(o, parent, run)

\* C20: a successful set_parent(p) takes the object out of the children of
\* its previous registered parent; with a scene object as p it puts the
\* object among p's children and registers p as its parent; with None or an
\* integer handle as p the object ends without registered parent.
\* set_parent with a removed scene object or one without handle as p raises
\* before the remote call and changes nothing.
C20_SetParentRegisters == [][C20_Step]_vars

\* set_parent moved the sensor the robot was constructed with from the robot
\* to a third object
C20_Witness ==
    LET bot == ObjOrder[1]
        e   == ObjOrder[2]
        p   == ObjOrder[3]
    IN  /\ last.op = "set_parent"
        /\ last.self = e
        /\ last.arg = "SceneObject"
        /\ last.exc = "None"
        /\ kind[bot] = "PioneerBot"
        /\ ~removed(Heap, bot)
        /\ _sensors = << e >>
        /\ e \notin _children[bot]
        /\ e \in _children[p]
        /\ _parent[e] = p

\* the operations of one scene object, its constructor included
SceneObjectOps == ObjForwardOps \cup {"__init__"}

\* the step is an operation in ops that raised
Raised(ops) == last'.op \in ops /\ last'.exc # "None"

\* object o has the name, handle, registered parent and children it had
FieldsKept(o) ==
    /\ _name'[o] = _name[o]
    /\ _handle'[o] = _handle[o]
    /\ _parent'[o] = _parent[o]
    /\ _children'[o] = _children[o]

\* the objects the step constructed
Built == Constructed(Heap') \ Objects

C21_Step ==
    /\ Raised(SceneObjectOps) =>
          /\ Built = {}
          /\ \A o \in Objects : FieldsKept(o)
    /\ Raised({"PioneerBot.__init__"}) =>
          /\ \A o \in Objects :
                /\ _name'[o] = _name[o]
                /\ _handle'[o] = _handle[o]
                /\ _parent'[o] = _parent[o]
                /\ _children[o] \subseteq _children'[o]
                /\ \A b \in _children'[o] \ _children[o] :
                      b \in Built /\ kind'[b] = "PioneerBot"
          /\ Built # {} =>
                \E p \in Objects, b \in Built :
                   /\ kind'[b] = "PioneerBot"
                   /\ _parent'[b] = p
                   /\ \A e \in Built \ {b} : _parent'[e] = b
                   /\ last'.exc \in
                         {"RuntimeError", "ConnectionError", "ServerError"}

\* C21 (what holds): an operation of one scene object that raises, the
\* constructor included, constructs nothing and leaves the name, handle,
\* registered parent and children of every existing object as they were.  A
\* PioneerBot constructor that raises leaves their names, handles and
\* parents, and adds at most the robot itself to the children of the parent
\* it was given: that happens when the robot was constructed and the handle
\* lookup of one of its sensors or wheels raised.
C21_FailedCallFrame == [][C21_Step]_vars

\* a robot constructor with a parent raised at a sensor or a wheel: the
\* robot is among the children of the parent
C21_Witness ==
    /\ last.op = "PioneerBot.__init__"
    /\ last.exc = "ServerError"
    /\ last.self = NoRef
    /\ \E p \in Objects, b \in Objects :
          /\ kind[b] = "PioneerBot"
          /\ kind[p] # "PioneerBot"
          /\ b \in _children[p]
          /\ _parent[b] = p
          /\ ~removed(Heap, b)

C21_AsWritten_Step ==
    Raised(SceneObjectOps \cup {"PioneerBot.__init__"}) =>
       \A o \in Objects : FieldsKept(o)

\* C21: when a scene-object operation raises (a constructor, set_parent,
\* remove, a getter or a setter), the handle, the name, the registered
\* parent and the children of every object that existed before the call are
\* exactly as they were.
C21_FailedCallChangesNothing == [][C21_AsWritten_Step]_vars

\* the invocation pending is a successful op
Succeeded(op) == last.op = op /\ last.exc = "None"

\* what the server returned to the pending vision sensor call
RawResolution == last.calls[1].val[1]

RawBuffer == last.calls[1].val[2]

\* the place, counted from 1, that the pixel of row r and column c of a
\* top-down image of w by h pixels has in the bottom-up buffer
RawIndex(r, c, w, h) == (h - r) * w + c

\* the unsigned byte that the signed value v stands for
Unsigned(v) == v % BYTE_VALUES

\* the pixel at place i of the raw image
RawPixel(i, grayscale) ==
    IF grayscale THEN Unsigned(RawBuffer[i])
    ELSE << Unsigned(RawBuffer[RGB * (i - 1) + 1]),
            Unsigned(RawBuffer[RGB * (i - 1) + 2]),
            Unsigned(RawBuffer[RGB * (i - 1) + 3]) >>

\* the values of a pixel
PixelValues(px, grayscale) ==
    IF grayscale THEN {px} ELSE { px[i] : i \in 1..Len(px) }

\* C22: get_image and get_depth_buffer return exactly height rows of width
\* pixels each, top-down: row r of the result is row height-1-r of the raw
\* bottom-up buffer, in the order it has there.  In get_image every value is
\* in 0..255, a negative raw value v having become v+256, and a pixel of an
\* image that is not grayscale is the list of the 3 consecutive raw values
\* of its triplet.
C22_RowsTopDown ==
    LET w == RawResolution[1]
        h == RawResolution[2]
    IN  /\ Succeeded("get_depth_buffer") =>
              /\ Len(last.ret) = h
              /\ \A r \in 1..h :
                    /\ Len(last.ret[r]) = w
                    /\ \A c \in 1..w :
                          last.ret[r][c] = RawBuffer[RawIndex(r, c, w, h)]
        /\ Succeeded("get_image") =>
              LET grayscale == last.arg = "True"
              IN  /\ Len(last.ret) = h
                  /\ \A r \in 1..h :
                        /\ Len(last.ret[r]) = w
                        /\ \A c \in 1..w :
                              /\ last.ret[r][c] =
                                    RawPixel(RawIndex(r, c, w, h), grayscale)
                              /\ grayscale \/ Len(last.ret[r][c]) = RGB
                              /\ PixelValues(last.ret[r][c], grayscale)
                                    \subseteq 0..(BYTE_VALUES - 1)
                  /\ \A i \in 1..Len(RawBuffer) :
                        RawBuffer[i] < 0 =>
                           RawBuffer[i] + BYTE_VALUES
                              \in UNION { PixelValues(last.ret[r][c], grayscale) :
                                          r \in 1..h, c \in 1..w }

\* an image of several rows and columns with negative raw values was
\* returned as RGB triplets, its first row differing from its last
C22_Witness ==
    /\ Succeeded("get_image")
    /\ last.arg = "False"
    /\ RawResolution[1] >= 2
    /\ RawResolution[2] >= 2
    /\ \E i \in 1..Len(RawBuffer) : RawBuffer[i] < 0
    /\ \E i \in 1..Len(RawBuffer) : RawBuffer[i] > 0
    /\ Len(last.ret) = RawResolution[2]
    /\ last.ret[1] # last.ret[Len(last.ret)]
    /\ last.ret[1][1] # last.ret[1][2]

\* the float parameters of the six limits, by axis and by end
ObjBoxParams ==
    << << "sim_objfloatparam_objbbox_min_x",
          "sim_objfloatparam_objbbox_max_x" >>,
       << "sim_objfloatparam_objbbox_min_y",
          "sim_objfloatparam_objbbox_max_y" >>,
       << "sim_objfloatparam_objbbox_min_z",
          "sim_objfloatparam_objbbox_max_z" >> >>

ModelBoxParams ==
    << << "sim_objfloatparam_modelbbox_min_x",
          "sim_objfloatparam_modelbbox_max_x" >>,
       << "sim_objfloatparam_modelbbox_min_y",
          "sim_objfloatparam_modelbbox_max_y" >>,
       << "sim_objfloatparam_modelbbox_min_z",
          "sim_objfloatparam_modelbbox_max_z" >> >>

\* value out is what the call returned: the limit lim itself, or lim rounded
\* to the nearest value the precision keeps
IsLimit(out, lim) ==
    \/ out = lim
    \/ /\ last.arg # "None"
       /\ last.arg = "default" => kind[last.self] \notin ModelClasses
       /\ out % 10 = 0
       /\ out - lim \in -5..5

\* C23: a successful get_bbox_limits of a scene object or of a model issues
\* six float-parameter calls, for x_min, x_max, y_min, y_max, z_min, z_max
\* in this order, and returns [[x_min, x_max], [y_min, y_max],
\* [z_min, z_max]]: the minimum and the maximum of one axis are paired, each
\* being what the call for it returned (rounded when a precision applies).
C23_LimitsPairedByAxis ==
    Succeeded("get_bbox_limits") =>
       LET params == IF kind[last.self] \in ModelClasses THEN ModelBoxParams
                     ELSE ObjBoxParams
       IN  /\ Len(last.calls) = 6
           /\ Len(last.ret) = 3
           /\ \A axis \in 1..3 :
                 LET min_call == last.calls[2 * axis - 1]
                     max_call == last.calls[2 * axis]
                 IN  /\ min_call.fn = "simxGetObjectFloatParameter"
                     /\ max_call.fn = "simxGetObjectFloatParameter"
                     /\ min_call.arg = params[axis][1]
                     /\ max_call.arg = params[axis][2]
                     /\ Len(last.ret[axis]) = 2
                     /\ IsLimit(last.ret[axis][1], min_call.val)
                     /\ IsLimit(last.ret[axis][2], max_call.val)

\* a model returned six limits that differ between the axes and between the
\* ends of an axis, unrounded
C23_Witness ==
    /\ Succeeded("get_bbox_limits")
    /\ kind[last.self] = "Model"
    /\ last.arg = "default"
    /\ Len(last.ret) = 3
    /\ last.ret[1] = << -6, 5 >>
    /\ last.ret[2] = << 5, 14 >>
    /\ last.ret[3] = << -6, 14 >>
    /\ last.calls[4].val = 14

====
